---- MODULE Spec2Model ----
(***************************************************************************)
(* Model of the Linkly URL shortener (src/app.py): the MongoDB collection  *)
(* `urls`, and the Flask handlers shorten, redirect_short_url and          *)
(* update_url run by concurrent request workers.  A handler is split into  *)
(* one step per store call (find_one, insert_one, update_one): the store   *)
(* calls are atomic, the handler as a whole is not.                        *)
(*                                                                         *)
(* Python values are tagged records [t, v]; a Python string is a sequence  *)
(* of one-character strings, so that split, strip, upper, int and strptime *)
(* are computed character by character as Python computes them.            *)
(***************************************************************************)
EXTENDS Integers, Sequences, FiniteSets, TLC

\* ------------------------------------------------------------------ bounds
MaxRecords == 2      \* documents the collection may hold
MaxWrites == 1       \* update requests accepted over a behaviour
MaxHits == 3         \* redirect requests that may be under way or answered with a 302
MaxTime == 1         \* last clock tick

Procs == {1, 2}      \* request workers

\* ----------------------------------------------------------- Python values
None == [t |-> "none", v |-> 0]
Str(s) == [t |-> "str", v |-> s]
PyInt(n) == [t |-> "int", v |-> n]
Dict(f) == [t |-> "dict", v |-> f]

\* Python truthiness: None, "", 0 and {} are false.
Truthy(x) ==
    CASE x.t = "none" -> FALSE
      [] x.t = "str"  -> x.v # <<>>
      [] x.t = "int"  -> x.v # 0
      [] x.t = "dict" -> DOMAIN x.v # {}

\* `x or None`
OrNone(x) == IF Truthy(x) THEN x ELSE None

\* ---------------------------------------------------------- str operations
LowerCase == <<"a","b","c","d","e","f","g","h","i","j","k","l","m",
               "n","o","p","q","r","s","t","u","v","w","x","y","z">>
UpperCase == <<"A","B","C","D","E","F","G","H","I","J","K","L","M",
               "N","O","P","Q","R","S","T","U","V","W","X","Y","Z">>
Digits == <<"0","1","2","3","4","5","6","7","8","9">>

UpperChar(c) ==
    IF \E i \in 1..26 : LowerCase[i] = c
    THEN UpperCase[CHOOSE i \in 1..26 : LowerCase[i] = c]
    ELSE c

\* str.upper()
upper(s) == [i \in 1..Len(s) |-> UpperChar(s[i])]

IsSpace(c) == c = " "

RECURSIVE lstrip(_)
lstrip(s) == IF s # <<>> /\ IsSpace(Head(s)) THEN lstrip(Tail(s)) ELSE s

RECURSIVE rstrip(_)
rstrip(s) ==
    IF s # <<>> /\ IsSpace(s[Len(s)]) THEN rstrip(SubSeq(s, 1, Len(s) - 1)) ELSE s

\* str.strip()
strip(s) == rstrip(lstrip(s))

\* `c in s` for a one-character c
Contains(s, c) == \E i \in 1..Len(s) : s[i] = c

\* index of the first c in s (s contains c)
IndexOf(s, c) == CHOOSE i \in 1..Len(s) : s[i] = c /\ \A j \in 1..(i - 1) : s[j] # c

\* str.split(c): every piece between separators, empty pieces included
RECURSIVE split(_, _)
split(s, c) ==
    IF Contains(s, c)
    THEN <<SubSeq(s, 1, IndexOf(s, c) - 1)>> \o split(SubSeq(s, IndexOf(s, c) + 1, Len(s)), c)
    ELSE <<s>>

\* str.split(c, 1) on a string that contains c: <<before, after>>
split1(s, c) == <<SubSeq(s, 1, IndexOf(s, c) - 1), SubSeq(s, IndexOf(s, c) + 1, Len(s))>>

IsDigit(c) == \E i \in 1..10 : Digits[i] = c
DigitVal(c) == (CHOOSE i \in 1..10 : Digits[i] = c) - 1

RECURSIVE DigitsVal(_)
DigitsVal(s) ==
    IF s = <<>> THEN 0 ELSE 10 * DigitsVal(SubSeq(s, 1, Len(s) - 1)) + DigitVal(s[Len(s)])

AllDigits(s) == s # <<>> /\ \A i \in 1..Len(s) : IsDigit(s[i])

ValueError == [t |-> "error", v |-> 0]

\* int(x): an int is itself; a string is stripped and read as an optionally
\* signed decimal; anything else raises
int(x) ==
    IF x.t = "int" THEN x
    ELSE IF x.t # "str" THEN ValueError
    ELSE LET s == strip(x.v) IN
         IF AllDigits(s) THEN PyInt(DigitsVal(s))
         ELSE IF s # <<>> /\ s[1] = "-" /\ AllDigits(Tail(s)) THEN PyInt(0 - DigitsVal(Tail(s)))
         ELSE IF s # <<>> /\ s[1] = "+" /\ AllDigits(Tail(s)) THEN PyInt(DigitsVal(Tail(s)))
         ELSE ValueError

\* ------------------------------------------------------------------- dates
\* A datetime is <<year, month, day, hour, minute, second>>.
InRange(s, maxlen, lo, hi) ==
    AllDigits(s) /\ Len(s) <= maxlen /\ DigitsVal(s) >= lo /\ DigitsVal(s) <= hi

\* datetime.strptime(s, "%Y-%m-%d %H:%M:%S"): the datetime, or ValueError
strptime(s) ==
    LET halves == split(s, " ") IN
    IF Len(halves) # 2 THEN ValueError
    ELSE LET d == split(halves[1], "-")
             h == split(halves[2], ":") IN
         IF /\ Len(d) = 3 /\ Len(h) = 3
            /\ AllDigits(d[1]) /\ Len(d[1]) = 4
            /\ InRange(d[2], 2, 1, 12) /\ InRange(d[3], 2, 1, 31)
            /\ InRange(h[1], 2, 0, 23) /\ InRange(h[2], 2, 0, 59) /\ InRange(h[3], 2, 0, 61)
         THEN [t |-> "datetime",
               v |-> <<DigitsVal(d[1]), DigitsVal(d[2]), DigitsVal(d[3]),
                       DigitsVal(h[1]), DigitsVal(h[2]), DigitsVal(h[3])>>]
         ELSE ValueError

\* a > b on datetimes: lexicographic on the six fields
RECURSIVE TupleGreater(_, _)
TupleGreater(a, b) ==
    IF a = <<>> THEN FALSE
    ELSE IF Head(a) # Head(b) THEN Head(a) > Head(b)
    ELSE TupleGreater(Tail(a), Tail(b))

\* datetime.now() when the clock shows `tick` seconds past the epoch of the model
Clock(tick) == <<2026, 1, 1, 0, 0, tick>>

\* ----------------------------------------------------------------- helpers
\* is_expired raises ValueError when the stored expiry_date does not parse
ExpiryRaises(url_data) ==
    /\ Truthy(url_data.expiry_date)
    /\ strptime(url_data.expiry_date.v) = ValueError

\* the date tested with >= instead of >
DateExpiredAtOnce(url_data, tick) ==
    /\ Truthy(url_data.expiry_date)
    /\ ~TupleGreater(strptime(url_data.expiry_date.v).v, Clock(tick))

\* the date half of is_expired
DateExpired(url_data, tick) ==
    /\ Truthy(url_data.expiry_date)
    /\ TupleGreater(Clock(tick), strptime(url_data.expiry_date.v).v)

\* the quota tested with > instead of >=
QuotaExpiredLate(url_data) ==
    /\ Truthy(url_data.max_clicks)
    /\ url_data.clicks > url_data.max_clicks.v

\* the quota half of is_expired
QuotaExpired(url_data) ==
    /\ Truthy(url_data.max_clicks)
    /\ url_data.clicks >= url_data.max_clicks.v

is_expired(url_data, tick) == DateExpired(url_data, tick) \/ QuotaExpired(url_data)

get_country_redirect(url_data, country_code) ==
    LET country_data == url_data.country_redirect IN
    IF Truthy(country_data) /\ country_code \in DOMAIN country_data.v
    THEN Str(country_data.v[country_code])
    ELSE None

\* dict[k] = v
Put(d, k, val) == [x \in (DOMAIN d) \cup {k} |-> IF x = k THEN val ELSE d[x]]

RECURSIVE CountryPairs(_, _)
CountryPairs(pairs, d) ==
    IF pairs = <<>> THEN d
    ELSE LET pair == Head(pairs) IN
         CountryPairs(Tail(pairs),
                      IF Contains(pair, "=")
                      THEN Put(d, upper(strip(split1(pair, "=")[1])), strip(split1(pair, "=")[2]))
                      ELSE d)

\* the loop that turns "US=url;IN=url" into a dict
ParseCountry(value) == Dict(CountryPairs(split(value, ";"), <<>>))

\* the device override tried after the country override instead of before
TargetUrlDeviceWins(url_data, device, country) ==
    LET country_code == upper(IF country.t = "none" THEN <<>> ELSE country.v)
        country_redirect_url == get_country_redirect(url_data, country_code)
    IN IF device = "mobile" /\ Truthy(url_data.mobile_url) THEN url_data.mobile_url
       ELSE IF device = "pc" /\ Truthy(url_data.desktop_url) THEN url_data.desktop_url
       ELSE IF Truthy(country_redirect_url) THEN country_redirect_url
       ELSE url_data.long_url

\* lines 181-195: the redirect target for a stored document and a request
TargetUrl(url_data, device, country) ==
    LET device_url ==
            IF device = "mobile" /\ Truthy(url_data.mobile_url) THEN url_data.mobile_url
            ELSE IF device = "pc" /\ Truthy(url_data.desktop_url) THEN url_data.desktop_url
            ELSE url_data.long_url
        country_code == upper(IF country.t = "none" THEN <<>> ELSE country.v)
        country_redirect_url == get_country_redirect(url_data, country_code)
    IN IF Truthy(country_redirect_url) THEN country_redirect_url ELSE device_url

\* ------------------------------------------------------------------- store
\* positions of the documents matching {"short_id": sid}
Matches(docs, sid) == {i \in 1..Len(docs) : docs[i].short_id = sid}

\* find_one on the wrong key
IdTakenByUrl(docs, sid) == \E i \in 1..Len(docs) : docs[i].long_url = sid

\* lines 105, 110: `if urls.find_one({"short_id": ...})`
IdTaken(docs, sid) == Matches(docs, sid) # {}

\* position of the document find_one / update_one acts on (0: none)
FirstMatch(docs, sid) ==
    IF Matches(docs, sid) = {} THEN 0
    ELSE CHOOSE i \in Matches(docs, sid) : \A j \in Matches(docs, sid) : i <= j

\* update_one(filter, {"$inc": {"clicks": 1}})
IncClicks(docs, sid) ==
    IF FirstMatch(docs, sid) = 0 THEN docs
    ELSE [docs EXCEPT ![FirstMatch(docs, sid)].clicks = @ + 1]

\* long_url among the fields update_url looks for
UpdatableFieldsAndUrl ==
    {"long_url", "password", "expiry_date", "max_clicks", "mobile_url", "desktop_url",
     "country_redirect"}

\* line 241: the fields update_url looks for in the body
UpdatableFields ==
    {"password", "expiry_date", "max_clicks", "mobile_url", "desktop_url", "country_redirect"}

\* the document replaced by the body: an option the body lacks is unset
SetFieldsReplace(docs, sid, fields) ==
    IF FirstMatch(docs, sid) = 0 THEN docs
    ELSE [docs EXCEPT ![FirstMatch(docs, sid)] =
             [f \in DOMAIN @ |-> IF f \in DOMAIN fields THEN fields[f]
                                 ELSE IF f \in UpdatableFields THEN None ELSE @[f]]]

\* the $set together with an $inc of clicks, as a version counter
SetFieldsCounting(docs, sid, fields) ==
    IF FirstMatch(docs, sid) = 0 THEN docs
    ELSE [docs EXCEPT ![FirstMatch(docs, sid)] =
             [f \in DOMAIN @ |-> IF f \in DOMAIN fields THEN fields[f]
                                 ELSE IF f = "clicks" THEN @[f] + 1 ELSE @[f]]]

\* update_one(filter, {"$set": fields})
SetFields(docs, sid, fields) ==
    IF FirstMatch(docs, sid) = 0 THEN docs
    ELSE [docs EXCEPT ![FirstMatch(docs, sid)] =
             [f \in DOMAIN @ |-> IF f \in DOMAIN fields THEN fields[f] ELSE @[f]]]

\* ------------------------------------------------------------------ inputs
\* generate_short_id() draws from a two-letter alphabet, one character long
GeneratedIds == {Str(<<"a">>), Str(<<"b">>)}
Ids == GeneratedIds

ExpiryDate == Str(<<"2","0","2","6","-","0","1","-","0","1"," ","0","0",":","0","0",":","0","0">>)
ExpiryBad == Str(<<"2","0","2","6","-","0","1","-","0","1">>)

\* a POST /shorten body without any field
NoFields ==
    [long_url |-> None, custom_id |-> None, password |-> None, expiry_date |-> None,
     max_clicks |-> None, mobile_url |-> None, desktop_url |-> None, country_redirect |-> None]

Plain == [NoFields EXCEPT !.long_url = Str(<<"L">>)]

Post(password) == [method |-> "POST", password |-> password]

\* method and password field of a redirect request
Logins == {[method |-> "GET", password |-> None], Post(None), Post(Str(<<"s">>)), Post(Str(<<"S">>))}
Devices == {"mobile", "tablet", "pc", "other"}
CountryHeaders == {None, Str(<<"u","s">>), Str(<<"F","R">>)}

\* a request on /update/<sid> with JSON body data
Change(sid, data) == [short_id |-> sid, data |-> data]

Visit(sid, login, device, country) ==
    [short_id |-> sid, method |-> login.method, password |-> login.password,
     device |-> device, country |-> country]

\* Requests on the access controls (password, expiry_date, max_clicks),
\* submitted one after another: bodies of POST /shorten, JSON bodies of
\* /update (a body is a function from the keys it carries to their values),
\* and requests GET/POST /<short_id> from a desktop without X-Country.
GateCreates ==
    { NoFields,
      [Plain EXCEPT !.max_clicks = PyInt(2)],
      [Plain EXCEPT !.max_clicks = Str(<<"x">>)],
      [Plain EXCEPT !.custom_id = Str(<<"a">>), !.password = Str(<<"s">>),
                    !.mobile_url = Str(<<"M">>)],
      [Plain EXCEPT !.custom_id = Str(<<"b">>), !.password = Str(<<"s">>),
                    !.expiry_date = ExpiryDate] }
GateUpdates ==
    {Change(sid, data) :
        sid \in Ids,
        data \in { <<>>,
                   [password |-> Str(<<"S">>)],
                   [password |-> Str(<<>>)],
                   [max_clicks |-> PyInt(0)],
                   [max_clicks |-> Str(<<"x">>)],
                   [max_clicks |-> None, expiry_date |-> None],
                   [expiry_date |-> ExpiryBad] }}
GateVisits == {Visit(sid, login, "pc", None) : sid \in Ids, login \in Logins}

\* Requests on the redirect target, submitted one after another: records
\* with device and country overrides, and requests from every device with
\* every X-Country, carrying the password "s".
TargetCreates ==
    { Plain,
      [Plain EXCEPT !.custom_id = Str(<<"a">>), !.mobile_url = Str(<<"M">>),
                    !.desktop_url = Str(<<"D">>),
                    !.country_redirect = Str(<<" ","u","s"," ","="," ","X",";","F","R">>)],
      [Plain EXCEPT !.custom_id = Str(<<"a">>), !.mobile_url = Str(<<"M">>),
                    !.password = Str(<<"s">>),
                    !.country_redirect = Str(<<"U","S","=",";","=","Y">>)] }
TargetUpdates ==
    {Change(sid, data) :
        sid \in Ids,
        data \in { [long_url |-> Str(<<"N">>)],
                   [long_url |-> Str(<<"N">>), desktop_url |-> Str(<<"D">>)],
                   [mobile_url |-> None, country_redirect |-> Str(<<"j","u","n","k">>)],
                   [country_redirect |->
                       Str(<<"f","r","=","X",";","U","S","=","Y","=","Y">>)] }}
TargetVisits ==
    {Visit(sid, Post(Str(<<"s">>)), device, country) :
        sid \in Ids, device \in Devices, country \in CountryHeaders}

\* Requests submitted concurrently.
RaceCreates ==
    { [Plain EXCEPT !.max_clicks = PyInt(1)],
      [Plain EXCEPT !.custom_id = Str(<<"a">>)] }
RaceUpdates ==
    {Change(Str(<<"a">>), data) : data \in {[max_clicks |-> None], [max_clicks |-> PyInt(2)]}}
RaceVisits == {Visit(sid, [method |-> "GET", password |-> None], "pc", None) : sid \in Ids}

\* Requests on the statistics: records with and without a password, updates
\* of the password, GET /stats/<short_id>.
Passwords == {Str(<<"s">>), Str(<<"S">>), Str(<<"s","s">>)}
StatsCreates ==
    { Plain,
      [Plain EXCEPT !.password = Str(<<"s">>), !.max_clicks = PyInt(2)],
      [Plain EXCEPT !.custom_id = Str(<<"b">>), !.password = Str(<<"S">>),
                    !.expiry_date = ExpiryDate] }
StatsUpdates ==
    {Change(sid, data) :
        sid \in Ids,
        data \in {[password |-> Str(<<"s","s">>)], [password |-> None]}}
StatsVisits == {Visit(sid, login, "pc", None) : sid \in Ids, login \in {Post(Str(<<"s">>))}}
StatsRequests == {[short_id |-> sid] : sid \in Ids}

\* Requests that clear options: a record with every option set, updates
\* carrying "" or null for them, and requests from a phone and a desktop,
\* with and without X-Country, with and without the password.
ClearCreates ==
    { Plain,
      [Plain EXCEPT !.custom_id = Str(<<"a">>), !.password = Str(<<"s">>),
                    !.expiry_date = ExpiryDate, !.max_clicks = PyInt(1),
                    !.mobile_url = Str(<<"M">>), !.desktop_url = Str(<<"D">>),
                    !.country_redirect = Str(<<"U","S","=","X">>)] }
ClearUpdates ==
    {Change(Str(<<"a">>), data) :
        data \in { [password |-> Str(<<>>)],
                   [max_clicks |-> None],
                   [expiry_date |-> Str(<<>>), max_clicks |-> Str(<<>>)],
                   [password |-> None, mobile_url |-> Str(<<>>)],
                   [password |-> None, desktop_url |-> None, country_redirect |-> Str(<<>>)],
                   [password |-> Str(<<>>), expiry_date |-> None, max_clicks |-> None,
                    country_redirect |-> None] }}
ClearVisits ==
    {Visit(Str(<<"a">>), login, device, country) :
        login \in {[method |-> "GET", password |-> None], Post(Str(<<"s">>))},
        device \in {"mobile", "pc"},
        country \in {None, Str(<<"u","s">>)}}

\* Creation requests submitted concurrently, with and without custom_id.
AllocCreates ==
    { Plain,
      [Plain EXCEPT !.password = Str(<<"s">>)],
      [Plain EXCEPT !.custom_id = Str(<<"a">>)],
      [Plain EXCEPT !.custom_id = Str(<<"b">>)] }

\* ------------------------------------------------------------------- state
VARIABLES
    urls,       \* the collection db.urls: documents in insertion order
    pc,         \* pc[p]: where worker p is in the handler it runs
    req,        \* req[p]: the request worker p is serving or served last
    short_id,   \* short_id[p]: the identifier worker p chose for the record it creates
    url_data,   \* url_data[p]: the document worker p read with find_one
    resp,       \* resp[p]: the response to req[p], once returned
    now,        \* the wall clock
    writes,     \* update requests accepted so far
    hits        \* hits[sid]: redirect requests on sid answered with a 302

vars == <<urls, pc, req, short_id, url_data, resp, now, writes, hits>>

Response(status, kind, target) == [status |-> status, kind |-> kind, target |-> target]

\* no request, no document read, no response yet
Nothing == Response(0, "nothing", None)

Init ==
    /\ urls = <<>>
    /\ pc = [p \in Procs |-> "idle"]
    /\ req = [p \in Procs |-> Nothing]
    /\ short_id = [p \in Procs |-> None]
    /\ url_data = [p \in Procs |-> Nothing]
    /\ resp = [p \in Procs |-> Nothing]
    /\ now = 0
    /\ writes = 0
    /\ hits = [sid \in Ids |-> 0]

\* worker p answers request r with response out and is free again
Return(p, r, out) ==
    /\ pc' = [pc EXCEPT ![p] = "idle"]
    /\ req' = [req EXCEPT ![p] = r]
    /\ short_id' = [short_id EXCEPT ![p] = None]
    /\ url_data' = [url_data EXCEPT ![p] = Nothing]
    /\ resp' = [resp EXCEPT ![p] = out]

\* worker p goes on to step `next` of the handler of request r, holding the
\* identifier sid and the document doc
Goto(p, next, r, sid, doc) ==
    /\ pc' = [pc EXCEPT ![p] = next]
    /\ req' = [req EXCEPT ![p] = r]
    /\ short_id' = [short_id EXCEPT ![p] = sid]
    /\ url_data' = [url_data EXCEPT ![p] = doc]
    /\ resp' = [resp EXCEPT ![p] = Nothing]

\* --------------------------------------------------------- POST /shorten
\* workers between the uniqueness check and insert_one
Creating == {p \in Procs : pc[p] \in {"generate", "insert"}}

\* the candidate taken without the find_one
DrawIdUnchecked(p, data) ==
    \E candidate \in GeneratedIds : Goto(p, "insert", data, candidate, Nothing)

\* lines 109-111: one draw of generate_short_id() and its find_one
DrawId(p, data) ==
    \E candidate \in GeneratedIds :
        IF IdTaken(urls, candidate)
        THEN Goto(p, "generate", data, None, Nothing)
        ELSE Goto(p, "insert", data, candidate, Nothing)

\* lines 79-111: read the body, reject a missing long_url, check the custom
\* id or draw the first candidate
ShortenCheck(p, data) ==
    /\ pc[p] = "idle"
    /\ Len(urls) + Cardinality(Creating) < MaxRecords
    /\ IF ~Truthy(data.long_url)
       THEN Return(p, data, Response(400, "missing_url", None))
       ELSE IF Truthy(data.custom_id)
       THEN IF IdTaken(urls, data.custom_id)
            THEN Return(p, data, Response(400, "id_taken", None))
            ELSE Goto(p, "insert", data, data.custom_id, Nothing)
       ELSE DrawId(p, data)
    /\ UNCHANGED <<urls, now, writes, hits>>

\* lines 110-111: the candidate was taken, draw again
ShortenRetry(p) ==
    /\ pc[p] = "generate"
    /\ DrawId(p, req[p])
    /\ UNCHANGED <<urls, now, writes, hits>>

\* lines 123-133: the document built from the body and the chosen short_id
UrlEntry(data, sid) ==
    [short_id |-> sid,
     long_url |-> data.long_url,
     clicks |-> 0,
     password |-> OrNone(data.password),
     expiry_date |-> OrNone(data.expiry_date),
     max_clicks |-> IF Truthy(data.max_clicks) THEN int(data.max_clicks) ELSE None,
     mobile_url |-> OrNone(data.mobile_url),
     desktop_url |-> OrNone(data.desktop_url),
     country_redirect |-> IF Truthy(data.country_redirect)
                          THEN ParseCountry(data.country_redirect.v) ELSE None]

\* lines 113-153: build the document, insert it, answer with the short URL
ShortenInsert(p) ==
    /\ pc[p] = "insert"
    /\ IF UrlEntry(req[p], short_id[p]).max_clicks = ValueError
       THEN /\ Return(p, req[p], Response(500, "create_error", None))
            /\ UNCHANGED urls
       ELSE /\ urls' = Append(urls, UrlEntry(req[p], short_id[p]))
            /\ Return(p, req[p], Response(200, "created", short_id[p]))
    /\ UNCHANGED <<now, writes, hits>>

\* ---------------------------------------------------- GET/POST /<short_id>
\* workers between find_one and the $inc
Redirecting == {p \in Procs : pc[p] = "redirect"}

RECURSIVE SumOver(_, _)
SumOver(f, S) ==
    IF S = {} THEN 0
    ELSE LET x == CHOOSE y \in S : TRUE IN f[x] + SumOver(f, S \ {x})

TotalHits == SumOver(hits, Ids)

\* lines 158-160: find_one, 404 when there is no such document
RedirectFind(p, r) ==
    /\ pc[p] = "idle"
    /\ TotalHits + Cardinality(Redirecting) < MaxHits
    /\ IF FirstMatch(urls, r.short_id) = 0
       THEN Return(p, r, Response(404, "not_found", None))
       ELSE Goto(p, "redirect", r, None, urls[FirstMatch(urls, r.short_id)])
    /\ UNCHANGED <<urls, now, writes, hits>>

\* line 169: the password a POST supplies
InputPwd(r) == OrNone(r.password)

\* the comparison made without regard to case
PasswordMatchesAnyCase(input_pwd, stored) ==
    input_pwd.t = "str" /\ stored.t = "str" /\ upper(input_pwd.v) = upper(stored.v)

\* line 170: the comparison with the stored password
PasswordMatches(input_pwd, stored) == input_pwd = stored

\* lines 162-199 on the document read by find_one: the response, and whether
\* the handler goes on to the $inc
Decide(doc, r, tick) ==
    IF ExpiryRaises(doc) THEN Response(500, "crash", None)
    ELSE IF is_expired(doc, tick) THEN Response(403, "expired", None)
    ELSE IF Truthy(doc.password) /\ r.method = "POST" /\ ~PasswordMatches(InputPwd(r), doc.password)
         THEN Response(403, "denied", None)
    ELSE IF Truthy(doc.password) /\ r.method # "POST"
         THEN Response(200, "prompt", None)
    ELSE Response(302, "redirect", TargetUrl(doc, r.device, r.country))

\* a read-modify-write of the copy read by find_one instead of the $inc
CountClickStale(docs, doc, sid) == SetFields(docs, sid, [clicks |-> doc.clicks + 1])

\* line 198: the $inc acts on the stored document, not on the copy `doc`
\* the handler read
CountClick(docs, doc, sid) == IncClicks(docs, sid)

\* the $inc run before the password gate
CountedBeforeGate(out) == out.kind \in {"redirect", "denied", "prompt"}

\* lines 197-199: the $inc is on the path that returns the redirect only
Counted(out) == out.status = 302

\* lines 162-199: expiry, password, target, $inc, redirect
RedirectFinish(p) ==
    /\ pc[p] = "redirect"
    /\ LET out == Decide(url_data[p], req[p], now) IN
       /\ Return(p, req[p], out)
       /\ IF Counted(out)
          THEN /\ urls' = CountClick(urls, url_data[p], req[p].short_id)
               /\ hits' = [hits EXCEPT ![req[p].short_id] = @ + 1]
          ELSE UNCHANGED <<urls, hits>>
    /\ UNCHANGED <<now, writes>>

\* ------------------------------------------------ PATCH /update/<short_id>
\* an empty string stored as it is
UpdateValueKeepEmpty(field, value) ==
    IF value = None THEN None
    ELSE IF value = Str(<<>>) THEN value
    ELSE IF field = "max_clicks" THEN int(value)
    ELSE IF field = "country_redirect" THEN ParseCountry(value.v)
    ELSE value

\* lines 243-258: the value stored for one field of the body
UpdateValue(field, value) ==
    IF value = Str(<<>>) \/ value = None THEN None
    ELSE IF field = "max_clicks" THEN int(value)
    ELSE IF field = "country_redirect" THEN ParseCountry(value.v)
    ELSE value

\* lines 238-258: update_fields
UpdateFields(data) ==
    [field \in (DOMAIN data) \cap UpdatableFields |-> UpdateValue(field, data[field])]

\* lines 230-261: find_one, 404, build update_fields, 400 when it is empty
UpdateFind(p, r) ==
    /\ pc[p] = "idle"
    /\ writes < MaxWrites
    /\ writes' = writes + 1
    /\ LET sid == r.short_id
           data == r.data IN
       IF FirstMatch(urls, sid) = 0
       THEN Return(p, r, Response(404, "no_record", None))
       ELSE IF \E f \in DOMAIN UpdateFields(data) : UpdateFields(data)[f] = ValueError
       THEN Return(p, r, Response(500, "update_error", None))
       ELSE IF DOMAIN UpdateFields(data) = {}
       THEN Return(p, r, Response(400, "no_updates", None))
       ELSE Goto(p, "update", r, None, urls[FirstMatch(urls, sid)])
    /\ UNCHANGED <<urls, now, hits>>

\* lines 263-264: $set update_fields
UpdateWrite(p) ==
    /\ pc[p] = "update"
    /\ urls' = SetFields(urls, req[p].short_id, UpdateFields(req[p].data))
    /\ Return(p, req[p], Response(200, "updated", None))
    /\ UNCHANGED <<now, writes, hits>>

\* ---------------------------------------------------- GET /stats/<short_id>
\* the snapshot with the stored password in place of the flag
StatsBodyWithPassword(sid, doc) ==
    [short_url |-> sid,
     long_url |-> doc.long_url,
     clicks |-> doc.clicks,
     expiry_date |-> doc.expiry_date,
     max_clicks |-> doc.max_clicks,
     password_protected |-> doc.password,
     mobile_url |-> doc.mobile_url,
     desktop_url |-> doc.desktop_url,
     country_redirect |-> doc.country_redirect]

\* lines 214-224: the JSON snapshot of a document (short_url is BASE_URL,
\* a fixed prefix, followed by the identifier)
StatsBody(sid, doc) ==
    [short_url |-> sid,
     long_url |-> doc.long_url,
     clicks |-> doc.clicks,
     expiry_date |-> doc.expiry_date,
     max_clicks |-> doc.max_clicks,
     password_protected |-> Truthy(doc.password),
     mobile_url |-> doc.mobile_url,
     desktop_url |-> doc.desktop_url,
     country_redirect |-> doc.country_redirect]

\* lines 212-225: the response of stats on the store docs
StatsResponse(docs, sid) ==
    IF FirstMatch(docs, sid) = 0
    THEN [status |-> 404, kind |-> "stats_not_found", target |-> None,
          body |-> [error |-> "URL not found"]]
    ELSE [status |-> 200, kind |-> "stats", target |-> None,
          body |-> StatsBody(sid, docs[FirstMatch(docs, sid)])]

\* lines 210-225: find_one and the snapshot, in one step
Stats(p, r) ==
    /\ pc[p] = "idle"
    /\ Return(p, r, StatsResponse(urls, r.short_id))
    /\ UNCHANGED <<urls, now, writes, hits>>

\* ------------------------------------------------------------------- clock
Tick ==
    /\ now < MaxTime
    /\ now' = now + 1
    /\ UNCHANGED <<urls, pc, req, short_id, url_data, resp, writes, hits>>

\* ----------------------------------------------------------- specifications
Step(p, creates, updates, requests) ==
    \/ \E data \in creates : ShortenCheck(p, data)
    \/ ShortenRetry(p)
    \/ ShortenInsert(p)
    \/ \E r \in requests : RedirectFind(p, r)
    \/ RedirectFinish(p)
    \/ \E r \in updates : UpdateFind(p, r)
    \/ UpdateWrite(p)

\* requests served concurrently by all workers
Next == (\E p \in Procs : Step(p, RaceCreates, RaceUpdates, RaceVisits)) \/ Tick

Spec == Init /\ [][Next]_vars

\* requests on the access controls served one after another by one worker
NextGate == Step(1, GateCreates, GateUpdates, GateVisits) \/ Tick

SpecGate == Init /\ [][NextGate]_vars

\* requests on the redirect target served one after another by one worker
NextTarget == Step(1, TargetCreates, TargetUpdates, TargetVisits) \/ Tick

SpecTarget == Init /\ [][NextTarget]_vars

\* requests on password-protected records and their statistics, served one
\* after another by one worker
NextStats ==
    \/ Step(1, StatsCreates, StatsUpdates, StatsVisits)
    \/ \E r \in StatsRequests : Stats(1, r)
    \/ Tick

SpecStats == Init /\ [][NextStats]_vars

\* requests that clear options served one after another by one worker
NextClear == Step(1, ClearCreates, ClearUpdates, ClearVisits) \/ Tick

SpecClear == Init /\ [][NextClear]_vars

\* creation requests served concurrently by all workers; random.choices is
\* uniform, so a loop that keeps drawing draws every identifier again and
\* again: a draw of identifier c that can leave the loop is not put off
\* forever
NextAlloc ==
    \E p \in Procs :
        \/ \E data \in AllocCreates : ShortenCheck(p, data)
        \/ ShortenRetry(p)
        \/ ShortenInsert(p)

FairDraws ==
    \A p \in Procs : \A c \in GeneratedIds :
        SF_vars(ShortenRetry(p) /\ short_id'[p] = c)

SpecAlloc == Init /\ [][NextAlloc]_vars /\ FairDraws

\* ================================================================== claims
\* the responses of each handler
ShortenKinds == {"missing_url", "id_taken", "created", "create_error"}
RedirectKinds == {"not_found", "expired", "denied", "prompt", "redirect", "crash"}
UpdateKinds == {"no_record", "no_updates", "updated", "update_error"}

\* worker p takes a step out of the idle state
Starts(p) ==
    /\ pc[p] = "idle"
    /\ pc'[p] # "idle" \/ resp'[p] # resp[p] \/ req'[p] # req[p]

\* worker p answers a request in this step
Answers(p) == pc'[p] = "idle" /\ (pc[p] # "idle" \/ Starts(p))

\* worker p answers a redirect request on an existing record in this step
AnswersVisit(p) ==
    /\ Answers(p)
    /\ resp'[p].kind \in RedirectKinds
    /\ IdTaken(urls, req'[p].short_id)

\* worker p answers an update request in this step
AnswersUpdate(p) == Answers(p) /\ resp'[p].kind \in UpdateKinds

\* the stored document a request on sid acts on
Stored(sid) == urls[FirstMatch(urls, sid)]

\* C1: under any interleaving of concurrent creation requests, no two
\* records in the store have the same short_id.
C1_UniqueShortIds ==
    \A i, j \in 1..Len(urls) : i # j => urls[i].short_id # urls[j].short_id

\* C2: under any interleaving of concurrent redirect and update requests on
\* a short_id, the record's clicks equals the number of redirect requests on
\* it that completed with a 302: no increment is lost or overwritten.
C2_ClicksCountRedirects ==
    \A sid \in Ids :
        IF IdTaken(urls, sid) THEN Stored(sid).clicks = hits[sid] ELSE hits[sid] = 0

\* C2 witness: a redirect and an update are under way on the same record
\* after another redirect on it has incremented clicks past the copy the
\* first one read.
C2_Witness ==
    \E p, q \in Procs :
        /\ pc[p] = "redirect" /\ pc[q] = "update"
        /\ req[p].short_id = req[q].short_id
        /\ hits[req[p].short_id] >= 1
        /\ url_data[p].clicks < Stored(req[p].short_id).clicks

\* C3: on a record with max_clicks = N >= 1, no password and no expiry_date,
\* with requests served one after another, a redirect request that finds
\* clicks < N returns 302 and leaves clicks one higher, and one that finds
\* clicks >= N returns 403 and leaves clicks as it was: from clicks = 0 the
\* first N requests succeed with clicks 1..N and every later one gets 403.
C3_QuotaSequence ==
    [][\A p \in Procs :
         AnswersVisit(p) =>
            LET doc == Stored(req'[p].short_id)
                after == urls'[FirstMatch(urls, req'[p].short_id)] IN
            (/\ doc.max_clicks.t = "int" /\ doc.max_clicks.v >= 1
             /\ doc.password = None /\ doc.expiry_date = None)
            => IF doc.clicks < doc.max_clicks.v
               THEN resp'[p].status = 302 /\ after.clicks = doc.clicks + 1
               ELSE resp'[p].status = 403 /\ after.clicks = doc.clicks]_vars

\* C3 witness: the record of scenario 1 (max_clicks 2) after two redirects
\* and a third request answered 403, never updated.
C3_Witness ==
    /\ Len(urls) = 1 /\ writes = 0
    /\ urls[1].max_clicks = PyInt(2) /\ urls[1].clicks = 2
    /\ urls[1].password = None /\ urls[1].expiry_date = None
    /\ pc[1] = "idle" /\ resp[1] = Response(403, "expired", None)

\* the X-Country value the handler upper-cases ("" when the header is absent)
CountryCode(r) == upper(IF r.country = None THEN <<>> ELSE r.country.v)

HasCountry(doc, code) ==
    doc.country_redirect.t = "dict" /\ code \in DOMAIN doc.country_redirect.v

\* the device override or long_url
DeviceTarget(doc, device) ==
    IF device = "mobile" /\ doc.mobile_url # None THEN doc.mobile_url
    ELSE IF device = "pc" /\ doc.desktop_url # None THEN doc.desktop_url
    ELSE doc.long_url

C5_PasswordGate ==
    [][\A p \in Procs :
         AnswersVisit(p) /\ Truthy(Stored(req'[p].short_id).password) =>
            LET doc == Stored(req'[p].short_id)
                r == req'[p] IN
            /\ resp'[p].status = 302 => r.method = "POST" /\ r.password = doc.password
            /\ r.method = "GET" => resp'[p].kind = "prompt"
            /\ r.method = "POST" /\ r.password # doc.password => resp'[p].status = 403]_vars

\* C5 amended: a 302 is returned only to a POST whose password equals the
\* stored one; when the expiry and quota check passes, a GET returns the
\* prompt and a POST with a different password returns 403.
C5_PasswordGateOnceUnexpired ==
    [][\A p \in Procs :
         AnswersVisit(p) /\ Truthy(Stored(req'[p].short_id).password) =>
            LET doc == Stored(req'[p].short_id)
                r == req'[p]
                passed == ~ExpiryRaises(doc) /\ ~is_expired(doc, now) IN
            /\ resp'[p].status = 302 => r.method = "POST" /\ r.password = doc.password
            /\ passed /\ r.method = "GET" => resp'[p].kind = "prompt"
            /\ passed /\ r.method = "POST" /\ r.password # doc.password
                  => resp'[p] = Response(403, "denied", None)]_vars

\* C5 witness: a POST carrying the stored password of a protected record was
\* redirected.
C5_Witness ==
    \E p \in Procs :
        /\ pc[p] = "idle" /\ resp[p].kind = "redirect"
        /\ req[p].method = "POST"
        /\ IdTaken(urls, req[p].short_id)
        /\ Truthy(Stored(req[p].short_id).password)
        /\ req[p].password = Stored(req[p].short_id).password

\* C6: a redirect request that does not end in a 302 (404, 403 expired, 403
\* wrong password, password prompt, failure) leaves every record unchanged.
C6_NoRedirectNoWrite ==
    [][\A p \in Procs :
         Answers(p) /\ resp'[p].kind \in RedirectKinds \ {"redirect"} => urls' = urls]_vars

\* C6 witness: a request was refused for a wrong password on a record that
\* had been redirected once, and clicks is still 1.
C6_Witness ==
    \E p \in Procs :
        /\ pc[p] = "idle" /\ resp[p].kind = "denied"
        /\ IdTaken(urls, req[p].short_id)
        /\ Stored(req[p].short_id).clicks = 1
        /\ hits[req[p].short_id] = 1

\* C7: with expiry_date E set (ExpiryDate: second 0 of the clock) and the
\* quota not reached, a redirect request evaluated after E returns 403 and
\* one evaluated at or before E is not blocked as expired; without
\* expiry_date the date never blocks; and a record seen expired by date stays
\* so as long as its expiry_date is not written.
C7_DateExpiry ==
    [][/\ \A p \in Procs :
            AnswersVisit(p) /\ ~QuotaExpired(Stored(req'[p].short_id)) =>
               LET doc == Stored(req'[p].short_id) IN
               /\ doc.expiry_date = ExpiryDate /\ now > 0
                     => resp'[p] = Response(403, "expired", None)
               /\ doc.expiry_date = ExpiryDate /\ now <= 0 => resp'[p].kind # "expired"
               /\ doc.expiry_date = None => resp'[p].kind # "expired"
       /\ \A i \in 1..Len(urls) :
            /\ urls[i].expiry_date = ExpiryDate
            /\ urls'[i].expiry_date = ExpiryDate
            /\ now > 0
            => now' > 0]_vars

\* C7 witness: a record with expiry_date E, never updated, was redirected
\* before E passed and is refused as expired after.
C7_Witness ==
    /\ Len(urls) = 1 /\ writes = 0 /\ now = 1
    /\ urls[1].expiry_date = ExpiryDate /\ urls[1].clicks >= 1
    /\ pc[1] = "idle" /\ resp[1] = Response(403, "expired", None)

\* C8: a creation request whose custom_id is the short_id of a stored
\* record is answered with the conflict error 400 and leaves the store
\* unchanged.
C8_ConflictKeepsStore ==
    [][\A p \in Procs :
         (/\ Starts(p)
          /\ "long_url" \in DOMAIN req'[p]
          /\ Truthy(req'[p].long_url) /\ Truthy(req'[p].custom_id)
          /\ \E i \in 1..Len(urls) : urls[i].short_id = req'[p].custom_id)
         => /\ pc'[p] = "idle"
            /\ resp'[p] = Response(400, "id_taken", None)
            /\ urls' = urls]_vars

\* C8 witness: a creation with the custom_id of the only stored record got
\* the conflict error; the stored record still has the click and the
\* password an update gave it.
C8_Witness ==
    \E p \in Procs :
        /\ pc[p] = "idle" /\ resp[p].kind = "id_taken"
        /\ Len(urls) = 1
        /\ urls[1].short_id = req[p].custom_id
        /\ urls[1].clicks = 1
        /\ urls[1].password # req[p].password

\* C9: an update request changes only fields present in its payload: every
\* other field of the target record, and every other record, keeps its
\* value, and no record is added or removed.
C9_UpdateFrame ==
    [][\A p \in Procs :
         AnswersUpdate(p) =>
            /\ Len(urls') = Len(urls)
            /\ \A i \in 1..Len(urls) : \A f \in DOMAIN urls[i] :
                  (i # FirstMatch(urls, req'[p].short_id) \/ f \notin DOMAIN req'[p].data)
                  => urls'[i][f] = urls[i][f]]_vars

\* C9 witness: an update carrying only a password was applied to a record
\* that still holds its mobile_url and its clicks.
C9_Witness ==
    \E p \in Procs :
        /\ pc[p] = "idle" /\ resp[p].kind = "updated"
        /\ DOMAIN req[p].data = {"password"}
        /\ IdTaken(urls, req[p].short_id)
        /\ Stored(req[p].short_id).password = req[p].data.password
        /\ Stored(req[p].short_id).mobile_url = Str(<<"M">>)
        /\ Stored(req[p].short_id).clicks = 1

\* C10 as stated: after an update request on an existing record whose
\* payload carries long_url = U, the record's long_url is U.
C10_LongUrlMutable ==
    [][\A p \in Procs :
         (/\ AnswersUpdate(p)
          /\ IdTaken(urls, req'[p].short_id)
          /\ "long_url" \in DOMAIN req'[p].data)
         => urls'[FirstMatch(urls, req'[p].short_id)].long_url = req'[p].data.long_url]_vars

\* C10 amended: update does not write long_url: after an update request
\* whose payload carries long_url the record's long_url is what it was, and
\* a redirect without a matching country or device override goes to the
\* stored long_url.
C10_LongUrlKept ==
    [][\A p \in Procs :
         /\ (/\ AnswersUpdate(p)
             /\ IdTaken(urls, req'[p].short_id)
             /\ "long_url" \in DOMAIN req'[p].data)
            => urls'[FirstMatch(urls, req'[p].short_id)].long_url
                  = Stored(req'[p].short_id).long_url
         /\ (/\ AnswersVisit(p) /\ resp'[p].status = 302
             /\ req'[p].device \in {"tablet", "other"}
             /\ ~HasCountry(Stored(req'[p].short_id), CountryCode(req'[p])))
            => resp'[p].target = Stored(req'[p].short_id).long_url]_vars

\* C10 witness: an update carrying long_url and desktop_url was applied; the
\* record has the new desktop_url and the long_url it was created with.
C10_Witness ==
    \E p \in Procs :
        /\ pc[p] = "idle" /\ resp[p].kind = "updated"
        /\ "long_url" \in DOMAIN req[p].data
        /\ IdTaken(urls, req[p].short_id)
        /\ Stored(req[p].short_id).desktop_url = req[p].data.desktop_url
        /\ Stored(req[p].short_id).long_url = Str(<<"L">>)
        /\ req[p].data.long_url # Str(<<"L">>)

C12_NoHeaderNoCountry ==
    [][\A p \in Procs :
         AnswersVisit(p) /\ resp'[p].status = 302 /\ req'[p].country = None
         => resp'[p].target = DeviceTarget(Stored(req'[p].short_id), req'[p].device)]_vars

\* C13: a malformed expiry_date is rejected when it is written, so in every
\* reachable state each stored expiry_date is unset or parses in the format
\* YYYY-MM-DD HH:MM:SS, and no redirect request has failed in the expiry
\* check of a stored record.
C13_StoredDatesWellFormed ==
    /\ \A i \in 1..Len(urls) : ~ExpiryRaises(urls[i])
    /\ \A p \in Procs : resp[p].kind # "crash"

\* C14: the stats response does not depend on the password value: the
\* response to GET /stats/<short_id> on a record whose password is set is the
\* response the same request gets from the store that differs only in the
\* (non-empty) password value of that record; the body carries the boolean
\* password_protected and no password field.
C14_StatsHidePassword ==
    [][\A p \in Procs :
         Answers(p) /\ resp'[p].kind = "stats" /\ Truthy(Stored(req'[p].short_id).password) =>
            LET sid == req'[p].short_id IN
            /\ \A pw \in Passwords :
                  StatsResponse(SetFields(urls, sid, [password |-> pw]), sid) = resp'[p]
            /\ resp'[p].body.password_protected = TRUE
            /\ "password" \notin DOMAIN resp'[p].body]_vars

\* C14 witness: the statistics of a record whose password an update has
\* changed were returned after one redirect.
C14_Witness ==
    \E p \in Procs :
        /\ pc[p] = "idle" /\ resp[p].kind = "stats"
        /\ IdTaken(urls, req[p].short_id)
        /\ Stored(req[p].short_id).password = Str(<<"s","s">>)
        /\ resp[p].body.clicks = 1
        /\ resp[p].body.password_protected = TRUE

\* C15: for a record with max_clicks = N that no update has touched, clicks
\* <= N in every reachable state under any interleaving of concurrent
\* redirect requests: at most N of them complete with a 302.
C15_ClicksWithinQuota ==
    writes = 0 =>
        \A i \in 1..Len(urls) :
            urls[i].max_clicks.t = "int" =>
                /\ urls[i].clicks <= urls[i].max_clicks.v
                /\ hits[urls[i].short_id] <= urls[i].max_clicks.v

\* C16: on every stored record with max_clicks an integer N, whatever its
\* value, and no expiry_date, the quota check reports the record exhausted
\* exactly when clicks >= N: a redirect request is refused as expired when
\* it finds clicks >= N and is not when it finds clicks < N.
C16_QuotaExactlyAtN ==
    [][\A p \in Procs :
         AnswersVisit(p) =>
            LET doc == Stored(req'[p].short_id) IN
            doc.max_clicks.t = "int" /\ doc.expiry_date = None
            => /\ is_expired(doc, now) <=> doc.clicks >= doc.max_clicks.v
               /\ resp'[p].kind = "expired" <=> doc.clicks >= doc.max_clicks.v]_vars

\* the record's expiry_date has passed
PastExpiry(doc) == ~ExpiryRaises(doc) /\ DateExpired(doc, now)

\* the record's quota is reached or exceeded
Exhausted(doc) == doc.max_clicks.t = "int" /\ doc.clicks >= doc.max_clicks.v

\* the password gate lets request r through
GatePassed(doc, r) ==
    ~Truthy(doc.password) \/ (r.method = "POST" /\ r.password = doc.password)

\* C17: the expiry and quota check comes before the password gate, which
\* comes before the target and the increment: a request on an expired or
\* exhausted record is answered 403 "expired" whatever its method and
\* password, never with the prompt or a redirect, and clicks is incremented
\* only for a request that passed both checks.
C17_ExpiryBeforeGate ==
    [][\A p \in Procs :
         AnswersVisit(p) =>
            LET doc == Stored(req'[p].short_id) IN
            /\ PastExpiry(doc) \/ Exhausted(doc) => resp'[p] = Response(403, "expired", None)
            /\ urls' # urls => /\ ~PastExpiry(doc) /\ ~Exhausted(doc)
                               /\ GatePassed(doc, req'[p])]_vars

\* C18: on a record that is not expired and whose password is set, a
\* request that carries no password field, GET or POST, is answered with
\* the password prompt and never with 403 "denied"; "denied" is answered
\* only to a request that supplied a password and it does not match.
C18_PromptWithoutPassword ==
    [][\A p \in Procs :
         AnswersVisit(p) =>
            LET doc == Stored(req'[p].short_id)
                r == req'[p] IN
            Truthy(doc.password) /\ ~PastExpiry(doc) /\ ~Exhausted(doc)
            => /\ r.password = None => resp'[p] = Response(200, "prompt", None)
               /\ resp'[p].kind = "denied" => r.password # None /\ r.password # doc.password]_vars

\* the payload of an update carries "" or null for field f
Clears(data, f) == f \in DOMAIN data /\ (data[f] = Str(<<>>) \/ data[f] = None)

\* C19: an update that carries "" or null for password, expiry_date,
\* max_clicks, mobile_url, desktop_url or country_redirect leaves that field
\* unset, and an unset option does not apply to the redirect requests that
\* follow: without password no prompt and no refusal for the password,
\* without max_clicks and expiry_date no refusal as expired, and the target
\* of a 302 falls back to the next level (country URL, then device override,
\* then long_url) past every unset override.
C19_ClearedOptionsStopApplying ==
    [][\A p \in Procs :
         /\ AnswersUpdate(p) /\ resp'[p].kind = "updated" =>
               \A f \in UpdatableFields :
                  Clears(req'[p].data, f)
                  => urls'[FirstMatch(urls, req'[p].short_id)][f] = None
         /\ AnswersVisit(p) =>
               LET doc == Stored(req'[p].short_id)
                   r == req'[p]
                   out == resp'[p] IN
               /\ doc.password = None => out.kind \notin {"prompt", "denied"}
               /\ doc.max_clicks = None /\ doc.expiry_date = None
                     => out.kind \notin {"expired", "crash"}
               /\ doc.max_clicks = None /\ doc.expiry_date = ExpiryDate /\ now = 0
                     => out.kind # "expired"
               /\ doc.expiry_date = None /\ ~Exhausted(doc) => out.kind # "expired"
               /\ doc.password = None /\ doc.max_clicks = None /\ doc.expiry_date = None
                     => out.status = 302
               /\ out.status = 302 /\ doc.country_redirect = None
                     => out.target = DeviceTarget(doc, r.device)
               /\ out.status = 302 /\ doc.country_redirect = None
                  /\ (\/ r.device = "mobile" /\ doc.mobile_url = None
                      \/ r.device = "pc" /\ doc.desktop_url = None)
                     => out.target = doc.long_url
               /\ out.status = 302 /\ HasCountry(doc, CountryCode(r))
                  /\ doc.country_redirect.v[CountryCode(r)] # <<>>
                     => out.target = Str(doc.country_redirect.v[CountryCode(r)])]_vars

\* C19 witness: the record created with every option set, exhausted by one
\* click, has lost password, expiry_date, max_clicks and country_redirect in
\* an update, and a plain GET from a phone with X-Country was then
\* redirected to mobile_url.
C19_Witness ==
    \E p \in Procs :
        /\ pc[p] = "idle" /\ resp[p].kind = "redirect" /\ writes = 1 /\ now = 1
        /\ req[p].method = "GET" /\ req[p].device = "mobile"
        /\ req[p].country = Str(<<"u","s">>)
        /\ IdTaken(urls, req[p].short_id)
        /\ Stored(req[p].short_id).password = None
        /\ Stored(req[p].short_id).max_clicks = None
        /\ Stored(req[p].short_id).expiry_date = None
        /\ Stored(req[p].short_id).country_redirect = None
        /\ Stored(req[p].short_id).clicks = 2
        /\ resp[p].target = Str(<<"M">>)

\* every identifier generate_short_id can return is in the store
AllTaken == \A c \in GeneratedIds : IdTaken(urls, c)

\* C20: a creation without custom_id draws candidates until one is absent
\* from the store: while an identifier is free and the draws are fair, the
\* loop ends; the identifier it leaves with was absent from the store at the
\* find_one that ended it; and no step of the loop writes to the store.
C20_AllocationTerminates ==
    /\ \A p \in Procs : pc[p] = "generate" ~> (pc[p] = "insert" \/ AllTaken)
    /\ [][\A p \in Procs :
            /\ pc[p] \in {"idle", "generate"} /\ pc'[p] = "insert"
               /\ ~Truthy(req'[p].custom_id)
                  => short_id'[p] \in GeneratedIds /\ ~IdTaken(urls, short_id'[p])
            /\ pc[p] \in {"idle", "generate"} /\ pc'[p] \in {"generate", "insert"}
               /\ pc'[p] # pc[p]
                  => urls' = urls]_vars

\* C20 witness: a creation without custom_id has left the loop with "b"
\* while "a" is in the store.
C20_Witness ==
    \E p \in Procs :
        /\ pc[p] = "insert" /\ ~Truthy(req[p].custom_id)
        /\ short_id[p] = Str(<<"b">>)
        /\ IdTaken(urls, Str(<<"a">>)) /\ ~IdTaken(urls, Str(<<"b">>))

====
